---- MODULE Spec2Model ----
(***************************************************************************)
(* The Predictive Delivery Optimizer dashboard (app.py): a script that is  *)
(* re-executed top to bottom on every user interaction.  One run is        *)
(*   load_data (cached) -> sidebar filters -> filtered_df -> KPIs          *)
(*   -> four charts -> CSV export.                                         *)
(* Tables are pandas DataFrames: an ordered list of columns, a dtype per   *)
(* column, a list of rows and the index label of each row.  A cell is a    *)
(* sequence of length 0 (missing: NaN / NaT) or 1 (a present value).       *)
(***************************************************************************)
EXTENDS Integers, Sequences, FiniteSets, TLC

\* Bounds of the input files: the number of data rows of orders.csv and of
\* delivery_performance.csv.
MaxOrders == 2
MaxDeliveries == 2
\* Bound on the number of times load_data's body touches the disk.
MaxLoads == 2

----------------------------------------------------------------------------
\* Cells

NaN == <<>>
Some(x) == <<x>>
IsNull(c) == c = NaN
Val(c) == c[1]

\* Sequence helpers
Range(s) == {s[i] : i \in 1..Len(s)}
SeqsUpTo(S, lo, hi) == UNION {[1..n -> S] : n \in lo..hi}

RECURSIVE SumSeq(_)
SumSeq(s) == IF s = <<>> THEN 0 ELSE Head(s) + SumSeq(Tail(s))

RECURSIVE SelectIdx(_, _, _)
\* the positions i..Len(keep) at which keep is TRUE, in increasing order
SelectIdx(keep, i, acc) ==
    IF i > Len(keep) THEN acc
    ELSE SelectIdx(keep, i + 1, IF keep[i] THEN Append(acc, i) ELSE acc)

RECURSIVE Flatten(_)
Flatten(ss) == IF ss = <<>> THEN <<>> ELSE Head(ss) \o Flatten(Tail(ss))

----------------------------------------------------------------------------
\* DataFrames

HasCol(t, c) == c \in Range(t.cols)
Column(t, c) == [i \in 1..Len(t.rows) |-> t.rows[i][c]]
NRows(t) == Len(t.rows)

\* Series.dropna().unique(), as the set of the distinct present values
DropnaUnique(t, c) == {Val(x) : x \in {y \in Range(Column(t, c)) : ~IsNull(y)}}

----------------------------------------------------------------------------
\* The files on disk

Files == <<"orders.csv", "delivery_performance.csv", "vehicle_fleet.csv", "cost_breakdown.csv">>

OrderCols == <<"Order_ID", "Priority", "Product Category", "Order Date", "Distance (km)">>
DeliveryCols == <<"Order_ID", "Promised_Delivery_Days", "Actual_Delivery_Days",
                  "Customer Rating", "Delay Reason">>
NumericCols == {"Order_ID", "Distance (km)", "Promised_Delivery_Days",
                "Actual_Delivery_Days", "Customer Rating", "Vehicle_ID"}

OrderRow(id, pri, cat, date, dist) ==
    ("Order_ID" :> id) @@ ("Priority" :> pri) @@ ("Product Category" :> cat)
    @@ ("Order Date" :> date) @@ ("Distance (km)" :> dist)

DeliveryRow(id, promised, actual, rating, reason) ==
    ("Order_ID" :> id) @@ ("Promised_Delivery_Days" :> promised)
    @@ ("Actual_Delivery_Days" :> actual) @@ ("Customer Rating" :> rating)
    @@ ("Delay Reason" :> reason)

\* The data rows the input files are drawn from.
OrderRows ==
    { OrderRow(Some(1), Some("High"), Some("Electronics"), Some("2024-01-05"), Some(10)),
      OrderRow(Some(2), Some("Low"), Some("Food"), Some("not-a-date"), Some(25)),
      OrderRow(Some(3), NaN, Some("Electronics"), Some("2024-01-05"), Some(40)) }

DeliveryRows ==
    { DeliveryRow(Some(1), Some(3), Some(5), Some(4), Some("Traffic")),
      DeliveryRow(Some(2), Some(4), Some(2), Some(5), NaN),
      DeliveryRow(Some(1), Some(2), Some(2), NaN, Some("Weather")) }

\* The headers the two files may have: Order_ID is required, the rest optional.
Without(cols, c) == SelectSeq(cols, LAMBDA x : x # c)
Headers ==
    { <<OrderCols, DeliveryCols>>,
      <<Without(OrderCols, "Priority"), DeliveryCols>>,
      <<Without(OrderCols, "Product Category"), DeliveryCols>>,
      <<Without(OrderCols, "Order Date"), DeliveryCols>>,
      <<OrderCols, Without(DeliveryCols, "Actual_Delivery_Days")>>,
      <<OrderCols, Without(DeliveryCols, "Customer Rating")>> }

\* A file's text: its header and its data rows, cut to the header's columns.
CsvFile(header, rows) ==
    [header |-> header,
     lines |-> [i \in 1..Len(rows) |-> [c \in Range(header) |-> rows[i][c]]]]

VehicleFile == CsvFile(<<"Vehicle_ID">>, <<("Vehicle_ID" :> Some(1))>>)
CostFile == CsvFile(<<"Order_ID">>, <<("Order_ID" :> Some(1))>>)

----------------------------------------------------------------------------
\* pd.read_csv: the parsed table.  A column with no present value, or a
\* numeric column with a missing value, is float64; a numeric column without
\* missing values is int64; any other column is object.  The index is 0..n-1.

InferDtype(c, cells) ==
    IF \A i \in 1..Len(cells) : IsNull(cells[i]) THEN "float64"
    ELSE IF c \in NumericCols
         THEN IF \E i \in 1..Len(cells) : IsNull(cells[i]) THEN "float64" ELSE "int64"
         ELSE "object"

read_csv(file) ==
    [cols |-> file.header,
     dtypes |-> [c \in Range(file.header) |->
                   InferDtype(c, [i \in 1..Len(file.lines) |-> file.lines[i][c]])],
     rows |-> file.lines,
     index |-> [i \in 1..Len(file.lines) |-> i - 1]]

----------------------------------------------------------------------------
\* orders.merge(delivery, on="Order_ID", how="left")

\* the positions of the delivery rows whose key equals the key of order row o
Matches(o, delivery) ==
    SelectIdx([j \in 1..NRows(delivery) |->
                  delivery.rows[j]["Order_ID"] = o["Order_ID"]], 1, <<>>)

RightCols(delivery) == Without(delivery.cols, "Order_ID")

JoinRow(o, orders, delivery, d) ==
    [c \in Range(orders.cols) \cup Range(RightCols(delivery)) |->
        IF c \in Range(orders.cols) THEN o[c]
        ELSE IF d = <<>> THEN NaN ELSE d[1][c]]

\* the mutant of LeftJoinRows: how="inner" drops the unmatched order rows
InnerJoinRows(o, orders, delivery) ==
    LET m == Matches(o, delivery)
    IN  [k \in 1..Len(m) |-> JoinRow(o, orders, delivery, <<delivery.rows[m[k]]>>)]

\* the merged rows of one order row: one per matching delivery row, in the
\* delivery table's order, or one row with the delivery fields missing
LeftJoinRows(o, orders, delivery) ==
    LET m == Matches(o, delivery)
    IN  IF m = <<>> THEN <<JoinRow(o, orders, delivery, <<>>)>>
        ELSE [k \in 1..Len(m) |-> JoinRow(o, orders, delivery, <<delivery.rows[m[k]]>>)]

merge(orders, delivery) ==
    LET rows == Flatten([i \in 1..NRows(orders) |->
                            LeftJoinRows(orders.rows[i], orders, delivery)])
        unmatched == \E i \in 1..NRows(orders) :
                        Matches(orders.rows[i], delivery) = <<>>
    IN  [cols |-> orders.cols \o RightCols(delivery),
         dtypes |-> [c \in Range(orders.cols) \cup Range(RightCols(delivery)) |->
                       IF c \in Range(orders.cols) THEN orders.dtypes[c]
                       ELSE IF unmatched /\ delivery.dtypes[c] = "int64" THEN "float64"
                       ELSE delivery.dtypes[c]],
         rows |-> rows,
         index |-> [i \in 1..Len(rows) |-> i - 1]]

----------------------------------------------------------------------------
\* The delay metrics

\* one cell of df["Actual_Delivery_Days"] - df["Promised_Delivery_Days"]
DelayDays(actual, promised) ==
    IF IsNull(actual) \/ IsNull(promised) THEN NaN ELSE Some(Val(actual) - Val(promised))

\* the mutant of DelayFlag: the comparison is >= instead of >
DelayFlagGe(days) == IF ~IsNull(days) /\ Val(days) >= 0 THEN Some(1) ELSE Some(0)

\* one cell of np.where(df["Delay Days"] > 0, 1, 0); NaN > 0 is False
DelayFlag(days) == IF ~IsNull(days) /\ Val(days) > 0 THEN Some(1) ELSE Some(0)

\* df[c] = cells: a new column is appended, an existing one is replaced in place
SetColumn(t, c, cells, dtype) ==
    [cols |-> IF HasCol(t, c) THEN t.cols ELSE Append(t.cols, c),
     dtypes |-> [x \in Range(t.cols) \cup {c} |-> IF x = c THEN dtype ELSE t.dtypes[x]],
     rows |-> [i \in 1..NRows(t) |->
                 [x \in Range(t.cols) \cup {c} |-> IF x = c THEN cells[i] ELSE t.rows[i][x]]],
     index |-> t.index]

CanDerive(t) == HasCol(t, "Actual_Delivery_Days") /\ HasCol(t, "Promised_Delivery_Days")

Derive(t) ==
    IF CanDerive(t)
    THEN LET days == [i \in 1..NRows(t) |->
                        DelayDays(t.rows[i]["Actual_Delivery_Days"],
                                  t.rows[i]["Promised_Delivery_Days"])]
             ddtype == IF t.dtypes["Actual_Delivery_Days"] = "int64"
                          /\ t.dtypes["Promised_Delivery_Days"] = "int64"
                       THEN "int64" ELSE "float64"
             t1 == SetColumn(t, "Delay Days", days, ddtype)
         IN  SetColumn(t1, "Delay Flag", [i \in 1..NRows(t) |-> DelayFlag(days[i])], "int64")
    ELSE t

\* the body of load_data on the files of disk d
load_data(d) ==
    LET orders == read_csv(d["orders.csv"])
        delivery == read_csv(d["delivery_performance.csv"])
        merged == merge(orders, delivery)
    IN  [df |-> Derive(merged),
         vehicles |-> read_csv(d["vehicle_fleet.csv"]),
         costs |-> read_csv(d["cost_breakdown.csv"]),
         warned |-> ~CanDerive(merged)]

----------------------------------------------------------------------------
\* The filter

\* st.sidebar.multiselect's options for column c; [] when the column is absent
Options(t, c) == IF HasCol(t, c) THEN DropnaUnique(t, c) ELSE {}

\* the mutant of UseFilter: "or" instead of "and"
UseFilterOr(pri, cat) == Cardinality(pri) > 0 \/ Cardinality(cat) > 0

\* if len(priority) > 0 and len(category) > 0
UseFilter(pri, cat) == Cardinality(pri) > 0 /\ Cardinality(cat) > 0

\* Series.isin(values), one cell: a missing cell is in no selection
IsIn(cell, values) == ~IsNull(cell) /\ Val(cell) \in values

\* the mutant of Mask: the two conditions are joined by | instead of &
MaskOr(t, pri, cat) ==
    [i \in 1..NRows(t) |->
        IsIn(t.rows[i]["Priority"], pri) \/ IsIn(t.rows[i]["Product Category"], cat)]

\* the mutant of Mask: the mask is taken one row late (a misaligned index)
MaskShifted(t, pri, cat) ==
    [i \in 1..NRows(t) |->
        /\ i > 1
        /\ IsIn(t.rows[i - 1]["Priority"], pri)
        /\ IsIn(t.rows[i - 1]["Product Category"], cat)]

\* (df["Priority"].isin(priority)) & (df["Product Category"].isin(category))
Mask(t, pri, cat) ==
    [i \in 1..NRows(t) |->
        IsIn(t.rows[i]["Priority"], pri) /\ IsIn(t.rows[i]["Product Category"], cat)]

\* df[mask]: the rows at which the mask is True, with their index labels
BoolIndex(t, mask) ==
    LET keep == SelectIdx(mask, 1, <<>>)
    IN  [cols |-> t.cols,
         dtypes |-> t.dtypes,
         rows |-> [k \in 1..Len(keep) |-> t.rows[keep[k]]],
         index |-> [k \in 1..Len(keep) |-> t.index[keep[k]]]]

\* A name bound to a DataFrame: the table, and whether the object is df itself.
\* The mutant of Copy: filtered_df = df binds the same object.
Alias(t) == [tbl |-> t, shared |-> TRUE]

\* df.copy(): an equal table in a new object
Copy(t) == [tbl |-> t, shared |-> FALSE]

\* the filtering branch of line 55 reads both columns: KeyError when one is absent
FilterRaises(t, pri, cat) ==
    UseFilter(pri, cat) /\ ~(HasCol(t, "Priority") /\ HasCol(t, "Product Category"))

\* lines 54-57: the object bound to filtered_df
Filter(t, pri, cat) ==
    IF UseFilter(pri, cat)
    THEN [tbl |-> BoolIndex(t, Mask(t, pri, cat)), shared |-> FALSE]
    ELSE Copy(t)

----------------------------------------------------------------------------
\* The KPIs

\* the present values of a column
Present(t, c) ==
    LET cells == Column(t, c)
        keep == SelectIdx([i \in 1..Len(cells) |-> ~IsNull(cells[i])], 1, <<>>)
    IN  [k \in 1..Len(keep) |-> Val(cells[keep[k]])]

\* round(Series.mean(), 2) in hundredths: missing values are skipped, the mean
\* of no value is NaN, and a tie is rounded to the even hundredth
RoundedMean(t, c) ==
    LET v == Present(t, c)
        n == Len(v)
        s == 100 * SumSeq(v)
        h == s \div n
        r == s % n
    IN  IF n = 0 THEN NaN
        ELSE IF 2 * r > n \/ (2 * r = n /\ h % 2 = 1) THEN Some(h + 1) ELSE Some(h)

total_orders(t) == NRows(t)

delayed_orders(t) == IF HasCol(t, "Delay Flag") THEN SumSeq(Present(t, "Delay Flag")) ELSE 0

avg_delay(t) == IF HasCol(t, "Delay Days") THEN RoundedMean(t, "Delay Days") ELSE Some(0)

\* the mutant of avg_rating: the fallback is missing (NaN) instead of 0
avg_rating_nan(t) ==
    IF HasCol(t, "Customer Rating") THEN RoundedMean(t, "Customer Rating") ELSE NaN

avg_rating(t) ==
    IF HasCol(t, "Customer Rating") THEN RoundedMean(t, "Customer Rating") ELSE Some(0)

----------------------------------------------------------------------------
\* The charts and the export

\* pd.to_datetime(..., errors="coerce"), one cell: a date string becomes the
\* Timestamp of its midnight, any other value becomes NaT
Timestamps == ("2024-01-05" :> "2024-01-05 00:00:00")
to_datetime(cell) ==
    IF ~IsNull(cell) /\ Val(cell) \in DOMAIN Timestamps
    THEN Some(Timestamps[Val(cell)]) ELSE NaN

\* to_csv's text of one cell: a missing cell is empty, a float64 cell has its
\* decimal point, a datetime column whose times are all midnight has dates only
FormatCell(cell, dtype) ==
    IF IsNull(cell) THEN ""
    ELSE IF dtype = "int64" THEN ToString(Val(cell))
    ELSE IF dtype = "float64" THEN ToString(Val(cell)) \o ".0"
    ELSE IF dtype = "datetime64[ns]"
         THEN CHOOSE d \in DOMAIN Timestamps : Timestamps[d] = Val(cell)
    ELSE Val(cell)

\* DataFrame.to_csv(index=False): the header line, then one line per row
to_csv(t) ==
    <<t.cols>> \o [i \in 1..NRows(t) |->
                     [k \in 1..Len(t.cols) |->
                        FormatCell(t.rows[i][t.cols[k]], t.dtypes[t.cols[k]])]]

----------------------------------------------------------------------------
\* The state

VARIABLES
    disk,         \* the text of the four input files
    present,      \* the input files that exist
    cache,        \* st.cache_data's entry for load_data: <<>> or <<result>>
    reads,        \* how many times each file has been read
    pc,           \* the position of the script run
    error,        \* the exception that ended the run, "" when none
    df,           \* the merged table of this run
    warned,       \* the st.warning of load_data is shown in this run
    widget,       \* the multiselects' state: <<>> (default) or <<selection>>
    priority,     \* the selected priorities of this run
    category,     \* the selected categories of this run
    filtered_df,  \* the object bound to filtered_df
    filter_out,   \* the table lines 54-57 produced in this run
    kpi,          \* the four metrics
    charts,       \* the charts drawn in this run
    csv           \* the bytes handed to the download button

vars == <<disk, present, cache, reads, pc, error, df, warned, widget, priority,
          category, filtered_df, filter_out, kpi, charts, csv>>

EmptyTable == [cols |-> <<>>, dtypes |-> <<>>, rows |-> <<>>, index |-> <<>>]
NoKpi == [total_orders |-> 0, delayed_orders |-> 0, avg_delay |-> NaN, avg_rating |-> NaN]

\* the run's own names before the script has bound them
Unbound ==
    /\ df = EmptyTable
    /\ warned = FALSE
    /\ priority = {}
    /\ category = {}
    /\ filtered_df = [tbl |-> EmptyTable, shared |-> FALSE]
    /\ filter_out = EmptyTable
    /\ kpi = NoKpi
    /\ charts = {}
    /\ csv = <<>>

\* The input files: any header, any rows within the bounds.  A missing file is
\* tried with the one-row inputs.
Init ==
    /\ \E h \in Headers :
       \E o \in SeqsUpTo(OrderRows, 1, MaxOrders) :
       \E d \in SeqsUpTo(DeliveryRows, 1, MaxDeliveries) :
          /\ disk = ("orders.csv" :> CsvFile(h[1], o))
                    @@ ("delivery_performance.csv" :> CsvFile(h[2], d))
                    @@ ("vehicle_fleet.csv" :> VehicleFile)
                    @@ ("cost_breakdown.csv" :> CostFile)
          /\ \/ present = Range(Files)
             \/ /\ Len(o) = 1
                /\ Len(d) = 1
                /\ \E f \in Range(Files) : present = Range(Files) \ {f}
    /\ cache = <<>>
    /\ reads = [f \in Range(Files) |-> 0]
    /\ pc = "load"
    /\ error = ""
    /\ widget = [priority |-> <<>>, category |-> <<>>]
    /\ Unbound

----------------------------------------------------------------------------
\* The script, line by line

\* the mutant of CacheHit: load_data without @st.cache_data
NeverCached(c) == FALSE

\* @st.cache_data: a stored result is returned without running the body
CacheHit(c) == c # <<>>

\* the files load_data reads before the first missing one, all four if none is
FilesRead ==
    {Files[i] : i \in {j \in 1..Len(Files) : \A k \in 1..j : Files[k] \in present}}

\* line 40: df, vehicles, costs = load_data()
Load ==
    /\ pc = "load"
    /\ IF CacheHit(cache)
       THEN /\ df' = cache[1].df
            /\ warned' = cache[1].warned
            /\ pc' = "sidebar"
            /\ UNCHANGED <<cache, reads, error>>
       ELSE /\ SumSeq([i \in 1..Len(Files) |-> reads[Files[i]]]) < MaxLoads * Len(Files)
            /\ reads' = [f \in Range(Files) |-> IF f \in FilesRead THEN reads[f] + 1 ELSE reads[f]]
            /\ IF FilesRead = Range(Files)
               THEN /\ cache' = <<load_data(disk)>>
                    /\ df' = load_data(disk).df
                    /\ warned' = load_data(disk).warned
                    /\ pc' = "sidebar"
                    /\ UNCHANGED error
               ELSE /\ error' = "FileNotFoundError"
                    /\ pc' = "failed"
                    /\ UNCHANGED <<cache, df, warned>>
    /\ UNCHANGED <<disk, present, widget, priority, category, filtered_df,
                   filter_out, kpi, charts, csv>>

\* a multiselect's value: its default (every option) until the user has chosen
Selected(w, options) == IF w = <<>> THEN options ELSE w[1] \cap options

\* lines 44-52: the two multiselects
Sidebar ==
    /\ pc = "sidebar"
    /\ priority' = Selected(widget.priority, Options(df, "Priority"))
    /\ category' = Selected(widget.category, Options(df, "Product Category"))
    /\ pc' = "filter"
    /\ UNCHANGED <<disk, present, cache, reads, error, df, warned, widget,
                   filtered_df, filter_out, kpi, charts, csv>>

\* lines 54-57
FilterStep ==
    /\ pc = "filter"
    /\ IF FilterRaises(df, priority, category)
       THEN /\ error' = "KeyError"
            /\ pc' = "failed"
            /\ UNCHANGED <<filtered_df, filter_out>>
       ELSE /\ filtered_df' = Filter(df, priority, category)
            /\ filter_out' = Filter(df, priority, category).tbl
            /\ pc' = "kpi"
            /\ UNCHANGED error
    /\ UNCHANGED <<disk, present, cache, reads, df, warned, widget, priority,
                   category, kpi, charts, csv>>

\* lines 63-71
Kpi ==
    /\ pc = "kpi"
    /\ kpi' = [total_orders |-> total_orders(filtered_df.tbl),
               delayed_orders |-> delayed_orders(filtered_df.tbl),
               avg_delay |-> avg_delay(filtered_df.tbl),
               avg_rating |-> avg_rating(filtered_df.tbl)]
    /\ pc' = "chart1"
    /\ UNCHANGED <<disk, present, cache, reads, error, df, warned, widget, priority,
                   category, filtered_df, filter_out, charts, csv>>

\* lines 79-85: Delay % by Priority
Chart1 ==
    /\ pc = "chart1"
    /\ charts' = IF HasCol(filtered_df.tbl, "Priority") /\ HasCol(filtered_df.tbl, "Delay Flag")
                 THEN charts \cup {"Delay Percentage by Priority"} ELSE charts
    /\ pc' = "chart2"
    /\ UNCHANGED <<disk, present, cache, reads, error, df, warned, widget, priority,
                   category, filtered_df, filter_out, kpi, csv>>

\* line 89: filtered_df["Order Date"] = pd.to_datetime(filtered_df["Order Date"], errors="coerce")
ParseOrderDate(t) ==
    SetColumn(t, "Order Date",
              [i \in 1..NRows(t) |-> to_datetime(t.rows[i]["Order Date"])],
              "datetime64[ns]")

\* lines 88-95: Delay Trend Over Time; the assignment writes into the object
\* bound to filtered_df, which df sees when it is the same object
Chart2 ==
    /\ pc = "chart2"
    /\ IF HasCol(filtered_df.tbl, "Order Date") /\ HasCol(filtered_df.tbl, "Delay Flag")
       THEN /\ filtered_df' = [filtered_df EXCEPT !.tbl = ParseOrderDate(filtered_df.tbl)]
            /\ df' = IF filtered_df.shared THEN ParseOrderDate(filtered_df.tbl) ELSE df
            /\ charts' = charts \cup {"Delay Trend Over Time"}
       ELSE UNCHANGED <<filtered_df, df, charts>>
    /\ pc' = "chart3"
    /\ UNCHANGED <<disk, present, cache, reads, error, warned, widget, priority,
                   category, filter_out, kpi, csv>>

\* lines 98-102: Distance vs Delay
Chart3 ==
    /\ pc = "chart3"
    /\ charts' = IF HasCol(filtered_df.tbl, "Distance (km)") /\ HasCol(filtered_df.tbl, "Delay Days")
                 THEN charts \cup {"Distance vs Delay Days"} ELSE charts
    /\ pc' = "chart4"
    /\ UNCHANGED <<disk, present, cache, reads, error, df, warned, widget, priority,
                   category, filtered_df, filter_out, kpi, csv>>

\* lines 105-110: Delay Reasons
Chart4 ==
    /\ pc = "chart4"
    /\ charts' = IF HasCol(filtered_df.tbl, "Delay Reason")
                 THEN charts \cup {"Delay Reasons Distribution"} ELSE charts
    /\ pc' = "export"
    /\ UNCHANGED <<disk, present, cache, reads, error, df, warned, widget, priority,
                   category, filtered_df, filter_out, kpi, csv>>

\* lines 114-117: the CSV of filtered_df; its text is ASCII, which UTF-8
\* encodes byte for byte
Export ==
    /\ pc = "export"
    /\ csv' = to_csv(filtered_df.tbl)
    /\ pc' = "done"
    /\ UNCHANGED <<disk, present, cache, reads, error, df, warned, widget, priority,
                   category, filtered_df, filter_out, kpi, charts>>

\* the names of a new run are unbound
Rerun ==
    /\ pc' = "load"
    /\ error' = ""
    /\ df' = EmptyTable
    /\ warned' = FALSE
    /\ priority' = {}
    /\ category' = {}
    /\ filtered_df' = [tbl |-> EmptyTable, shared |-> FALSE]
    /\ filter_out' = EmptyTable
    /\ kpi' = NoKpi
    /\ charts' = {}
    /\ csv' = <<>>

\* The user changes the selection of the multiselects (or leaves it): Streamlit
\* reruns the script from the top.
Interact ==
    /\ pc = "done"
    /\ \E p \in SUBSET Options(df, "Priority") :
       \E c \in SUBSET Options(df, "Product Category") :
          widget' = [priority |-> <<p>>, category |-> <<c>>]
    /\ Rerun
    /\ UNCHANGED <<disk, present, cache, reads>>

\* After a failed load the missing file is put in place and the page is reloaded.
RestoreFile ==
    /\ pc = "failed"
    /\ error = "FileNotFoundError"
    /\ present' = Range(Files)
    /\ Rerun
    /\ UNCHANGED <<disk, cache, reads, widget>>

Next ==
    \/ Load
    \/ Sidebar
    \/ FilterStep
    \/ Kpi
    \/ Chart1
    \/ Chart2
    \/ Chart3
    \/ Chart4
    \/ Export
    \/ Interact
    \/ RestoreFile

Spec == Init /\ [][Next]_vars

----------------------------------------------------------------------------
\* Properties

\* df is bound: load_data has returned in this run
Loaded == pc \notin {"load", "failed"}
\* load_data has just returned: df is the merged table it produced
Merged == pc = "sidebar"
\* the metrics are computed
Summarized == pc \in {"chart1", "chart2", "chart3", "chart4", "export", "done"}

BothFilterCols(t) == HasCol(t, "Priority") /\ HasCol(t, "Product Category")

\* the field c of row i is absent: there is no such column, or the cell is missing
FieldAbsent(t, i, c) == ~HasCol(t, c) \/ IsNull(t.rows[i][c])

DurationAbsent(t, i) ==
    FieldAbsent(t, i, "Actual_Delivery_Days") \/ FieldAbsent(t, i, "Promised_Delivery_Days")

\* C1: in the merged table, every row whose actual or promised delivery
\* duration is absent has both derived fields absent: Delay Days is absent and
\* Delay Flag is absent (not 0).
C1_AbsentDurationLeavesBothDerivedAbsent ==
    Merged =>
        \A i \in 1..NRows(df) :
            DurationAbsent(df, i) =>
                FieldAbsent(df, i, "Delay Days") /\ FieldAbsent(df, i, "Delay Flag")

\* C2 as stated: with both filter columns present, selecting no value in one
\* dimension gives the same table as selecting all of that dimension's values,
\* whatever is selected in the other dimension.
C2_SelectNoneEqualsSelectAll ==
    (Merged /\ BothFilterCols(df)) =>
        /\ \A c \in SUBSET Options(df, "Product Category") :
              Filter(df, {}, c).tbl = Filter(df, Options(df, "Priority"), c).tbl
        /\ \A p \in SUBSET Options(df, "Priority") :
              Filter(df, p, {}).tbl = Filter(df, p, Options(df, "Product Category")).tbl

NoMissing(t, c) == \A i \in 1..NRows(t) : ~IsNull(t.rows[i][c])

\* C2 as amended: with both filter columns present, selecting no value in one
\* dimension gives the full unfiltered merged table, whatever is selected in
\* the other dimension (so it is empty only if the merged table is); it is the
\* select-all result when the other dimension also selects all of its values
\* and no row has a missing priority or category.
C2_SelectNoneIsUnfiltered ==
    /\ (Merged /\ BothFilterCols(df)) =>
          /\ \A c \in SUBSET Options(df, "Product Category") : Filter(df, {}, c).tbl = df
          /\ \A p \in SUBSET Options(df, "Priority") : Filter(df, p, {}).tbl = df
          /\ (NoMissing(df, "Priority") /\ NoMissing(df, "Product Category")) =>
                Filter(df, Options(df, "Priority"), Options(df, "Product Category")).tbl = df
    /\ (pc = "kpi" /\ BothFilterCols(df) /\ (priority = {} \/ category = {})) =>
          filter_out = df

C2_Witness ==
    /\ pc = "kpi"
    /\ BothFilterCols(df)
    /\ widget.priority = <<{}>>
    /\ priority = {}
    /\ category # {}
    /\ category # Options(df, "Product Category")
    /\ NRows(filter_out) > 0
    /\ filter_out # Filter(df, Options(df, "Priority"), category).tbl

\* the keys of the delivery file are pairwise different
UniqueDeliveryKeys ==
    LET l == disk["delivery_performance.csv"].lines
    IN  \A i, j \in 1..Len(l) : i # j => l[i]["Order_ID"] # l[j]["Order_ID"]

OrdersTable == read_csv(disk["orders.csv"])

\* C3: when each order identifier occurs at most once in the delivery table,
\* the merged table has exactly the rows of the orders table: row i of the
\* merged table carries the fields of row i of the orders table, matched or not.
C3_LeftJoinKeepsOrderRows ==
    (Merged /\ UniqueDeliveryKeys) =>
        /\ NRows(df) = NRows(OrdersTable)
        /\ \A i \in 1..NRows(df) :
              \A c \in Range(OrdersTable.cols) : df.rows[i][c] = OrdersTable.rows[i][c]

C3_Witness ==
    /\ Merged
    /\ UniqueDeliveryKeys
    /\ NRows(df) = 2
    /\ HasCol(df, "Actual_Delivery_Days")
    /\ \E i, j \in 1..NRows(df) :
          /\ df.rows[i]["Order_ID"] # df.rows[j]["Order_ID"]
          /\ IsNull(df.rows[i]["Promised_Delivery_Days"])
          /\ ~IsNull(df.rows[j]["Promised_Delivery_Days"])

\* C4: for every merged row with both durations present, Delay Days is actual
\* minus promised (possibly negative) and Delay Flag is 1 if Delay Days > 0,
\* otherwise 0.
C4_DelayDaysAndFlag ==
    (Merged /\ CanDerive(df)) =>
        \A i \in 1..NRows(df) :
            LET a == df.rows[i]["Actual_Delivery_Days"]
                p == df.rows[i]["Promised_Delivery_Days"]
            IN  (~IsNull(a) /\ ~IsNull(p)) =>
                   /\ df.rows[i]["Delay Days"] = Some(Val(a) - Val(p))
                   /\ df.rows[i]["Delay Flag"] = IF Val(a) - Val(p) > 0 THEN Some(1) ELSE Some(0)

C4_Witness ==
    /\ Merged
    /\ CanDerive(df)
    /\ \E i, j \in 1..NRows(df) :
          /\ df.rows[i]["Delay Days"] = Some(2) /\ df.rows[i]["Delay Flag"] = Some(1)
          /\ df.rows[j]["Delay Days"] = Some(-2) /\ df.rows[j]["Delay Flag"] = Some(0)

\* row i of table t passes the selection
Accepted(t, i, pri, cat) ==
    /\ ~IsNull(t.rows[i]["Priority"]) /\ Val(t.rows[i]["Priority"]) \in pri
    /\ ~IsNull(t.rows[i]["Product Category"]) /\ Val(t.rows[i]["Product Category"]) \in cat

\* the positions of table t that carry index label l
Labelled(t, l) == {k \in 1..NRows(t) : t.index[k] = l}

\* C5: with both filter columns present and a value selected in each, the
\* filtered view holds exactly the merged rows whose priority and category are
\* both selected, each once; with either column absent it holds every merged row.
C5_FilterSelectsExactly ==
    pc = "kpi" =>
        IF BothFilterCols(df)
        THEN (priority # {} /\ category # {}) =>
                /\ filter_out.cols = df.cols
                /\ \A i \in 1..NRows(df) :
                      IF Accepted(df, i, priority, category)
                      THEN /\ Cardinality(Labelled(filter_out, df.index[i])) = 1
                           /\ \A k \in Labelled(filter_out, df.index[i]) :
                                 filter_out.rows[k] = df.rows[i]
                      ELSE Labelled(filter_out, df.index[i]) = {}
                /\ \A k \in 1..NRows(filter_out) : Labelled(df, filter_out.index[k]) # {}
        ELSE filter_out = df

C5_Witness ==
    /\ pc = "kpi"
    /\ BothFilterCols(df)
    /\ priority # {}
    /\ category # {}
    /\ \E i, j \in 1..NRows(df) :
          /\ Accepted(df, i, priority, category)
          /\ ~Accepted(df, j, priority, category)
          /\ IsIn(df.rows[j]["Priority"], priority)
    /\ NRows(filter_out) = 1

\* C6: the table the export serializes is the table lines 54-57 produced: the
\* metrics and the charts leave every cell of it unchanged.
C6_ExportedIsFilterOutput ==
    pc = "done" => (filtered_df.tbl = filter_out /\ csv = to_csv(filter_out))

\* C7: the merged table is never modified: in every run, after every step, df
\* is the table Merge & Derive produced from the input files.
C7_MergedNeverModified ==
    /\ Loaded => df = cache[1].df
    /\ pc = "done" =>
          df = Derive(merge(OrdersTable, read_csv(disk["delivery_performance.csv"])))

C7_Witness ==
    /\ pc = "done"
    /\ "Delay Trend Over Time" \in charts
    /\ ~UseFilter(priority, category)
    /\ filtered_df.tbl # filter_out
    /\ widget.priority # <<>>

\* C8: missing columns never fail the run.  Without Actual_Delivery_Days or
\* Promised_Delivery_Days the merged table has neither Delay Days nor Delay
\* Flag, the warning is shown and no step raises; each of Delayed Deliveries,
\* Avg Delay and Avg Rating whose source column is absent from the filtered
\* table is 0, and Total Orders is the row count.
C8_MissingColumnsDegrade ==
    /\ error # "KeyError"
    /\ (Loaded /\ ~CanDerive(df)) =>
          (~HasCol(df, "Delay Days") /\ ~HasCol(df, "Delay Flag") /\ warned)
    /\ (Loaded /\ CanDerive(df)) => ~warned
    /\ Summarized =>
          /\ kpi.total_orders = NRows(filter_out)
          /\ ~HasCol(filter_out, "Delay Flag") => kpi.delayed_orders = 0
          /\ ~HasCol(filter_out, "Delay Days") => kpi.avg_delay = Some(0)
          /\ ~HasCol(filter_out, "Customer Rating") => kpi.avg_rating = Some(0)

C8_Witness ==
    /\ pc = "done"
    /\ ~HasCol(df, "Actual_Delivery_Days")
    /\ warned
    /\ kpi.total_orders = 2
    /\ kpi.delayed_orders = 0
    /\ kpi.avg_delay = Some(0)
    /\ kpi.avg_rating # Some(0)
    /\ charts = {"Delay Reasons Distribution"}

\* C9: filtering the result of the filter again with the same selection gives
\* the same table, for the selection of the run and for every other selection.
C9_FilterIdempotent ==
    /\ pc = "kpi" => Filter(filter_out, priority, category).tbl = filter_out
    /\ Merged =>
          \A p \in SUBSET Options(df, "Priority") :
             \A c \in SUBSET Options(df, "Product Category") :
                LET once == Filter(df, p, c).tbl
                IN  Filter(once, p, c).tbl = once

C9_Witness ==
    /\ pc = "kpi"
    /\ UseFilter(priority, category)
    /\ NRows(df) = 2
    /\ NRows(filter_out) = 1
    /\ filter_out.index = <<1>>
    /\ Filter(filter_out, priority, category).tbl.index = <<1>>

\* C10: once load_data has succeeded, no file is read again and the cached
\* result stays; the successful load reads each of the four files once; every
\* later run takes its merged table from the cache; and each run computes the
\* filtered view anew from the selection of the multiselects.
C10_FilesReadOnce ==
    [][/\ cache # <<>> => (reads' = reads /\ cache' = cache)
       /\ (cache = <<>> /\ cache' # <<>>) =>
             \A f \in Range(Files) : reads'[f] = reads[f] + 1
       /\ (pc = "load" /\ cache # <<>>) => (pc' = "sidebar" /\ df' = cache[1].df)
       /\ pc' = "load" => filter_out' = EmptyTable
       /\ (pc = "filter" /\ pc' = "kpi") =>
             filter_out' = Filter(df, Selected(widget.priority, Options(df, "Priority")),
                                  Selected(widget.category, Options(df, "Product Category"))).tbl
      ]_vars

C10_Witness ==
    /\ pc = "done"
    /\ widget.priority # <<>>
    /\ \A f \in Range(Files) : reads[f] = 1
    /\ NRows(filter_out) < NRows(df)

====
